---- MODULE Spec2Model ----
(***************************************************************************)
(* Register allocation core of tracc (src/src/allocators/registers.rs):    *)
(* alloc_registers and linear_alloc_block as a state machine over a family *)
(* of SSA IRs, with the hint collector make_allocator_hints.               *)
(***************************************************************************)
EXTENDS Integers, Sequences, FiniteSets, TLC

(***************************************************************************)
(* Bounds of the input family.                                             *)
(***************************************************************************)
\* longest generated straight-line block
MaxStmts == 3
\* largest number of simultaneously live constants of a pressure block
MaxPressure == 32

(***************************************************************************)
(* Generic helpers.                                                        *)
(***************************************************************************)
Range(s) == {s[i] : i \in DOMAIN s}

Min(S) == CHOOSE x \in S : \A y \in S : x <= y

Max(S) == CHOOSE x \in S : \A y \in S : y <= x

RECURSIVE SortedSeq(_)
\* ascending sequence of a finite set of integers
SortedSeq(S) == IF S = {} THEN <<>> ELSE <<Min(S)>> \o SortedSeq(S \ {Min(S)})

\* value of map m at key k, or d if k is not a key
GetOr(m, k, d) == IF k \in DOMAIN m THEN m[k] ELSE d

\* m with key k removed
RemoveKey(m, k) == [x \in DOMAIN m \ {k} |-> m[x]]

\* m with key k set to v (HashMap::insert)
Insert(m, k, v) == [x \in DOMAIN m \cup {k} |-> IF x = k THEN v ELSE m[x]]

EmptyMap == [x \in {} |-> 0]

(***************************************************************************)
(* RegisterID.                                                             *)
(***************************************************************************)
GeneralPurpose(index) == [tag |-> "GeneralPurpose", index |-> index]

ZeroRegister == [tag |-> "ZeroRegister", index |-> 0]

StackPointer == [tag |-> "StackPointer", index |-> 0]

\* RegisterID::from(u8)
RegisterFrom(i) == GeneralPurpose(i)

IsGpr(r) == r.tag = "GeneralPurpose"

(***************************************************************************)
(* The IR: blocks of statements with a block end.  Statement indices are   *)
(* 0-based as in the source: the statement at position p of the sequence   *)
(* has index p - 1, the block end has index Len(statements).               *)
(***************************************************************************)
NoBinding == -1

Constant(k) == [kind |-> "Constant", k |-> k, ops |-> <<>>]

Allocate == [kind |-> "Allocate", k |-> 4, ops |-> <<>>]

Call(args) == [kind |-> "Call", k |-> 0, ops |-> args]

Load(mem_binding) == [kind |-> "Load", k |-> 4, ops |-> <<mem_binding>>]

Add(lhs, rhs) == [kind |-> "Add", k |-> 0, ops |-> <<lhs, rhs>>]

Cmp(lhs, rhs) == [kind |-> "Cmp", k |-> 0, ops |-> <<lhs, rhs>>]

Phi(nodes) == [kind |-> "Phi", k |-> 0, ops |-> nodes]

Assign(index, value) == [kind |-> "Assign", index |-> index, value |-> value]

Store(mem_binding, binding) ==
    [kind |-> "Store", index |-> NoBinding,
     value |-> [kind |-> "Store", k |-> 0, ops |-> <<mem_binding, binding>>]]

Return(binding) == [kind |-> "Return", binding |-> binding, targets |-> <<>>]

Unconditional(target) == [kind |-> "Unconditional", binding |-> NoBinding, targets |-> <<target>>]

Conditional(flag, target_true, target_false) ==
    [kind |-> "Conditional", binding |-> flag, targets |-> <<target_true, target_false>>]

BasicBlock(statements, end) == [statements |-> statements, end |-> end]

\* an IR of one function made of all the blocks
SingleFunction(code) ==
    [code |-> code, function_entrypoints |-> <<0>>,
     function_endpoints |-> {<<Len(code) - 1, 0>>}]

\* blocks are numbered from 0
BlockIds(code) == 0 .. Len(code) - 1

BlockAt(code, b) == code[b + 1]

\* statement indices of a block, the block end excluded
StmtIds(block) == 0 .. Len(block.statements) - 1

StmtAt(block, i) == block.statements[i + 1]

\* bindings read by a statement
StatementUses(stmt) == Range(stmt.value.ops)

\* bindings read by a block end (the flag of a conditional, the returned binding)
EndUses(end) == IF end.kind \in {"Return", "Conditional"} THEN {end.binding} ELSE {}

\* indices at which the block reads binding b
UseIndices(block, b) ==
    {i \in StmtIds(block) : b \in StatementUses(StmtAt(block, i))}
        \cup (IF b \in EndUses(block.end) THEN {Len(block.statements)} ELSE {})

\* bindings defined in a block
DefinedIn(block) ==
    {StmtAt(block, i).index : i \in {j \in StmtIds(block) : StmtAt(block, j).kind = "Assign"}}

\* bindings read in a block
UsedIn(block) ==
    UNION {StatementUses(StmtAt(block, i)) : i \in StmtIds(block)} \cup EndUses(block.end)

\* all bindings defined by an Assign statement of the IR
AllDefined(code) == UNION {DefinedIn(BlockAt(code, b)) : b \in BlockIds(code)}

\* index of the statement defining b in the block
DefIndex(block, b) ==
    CHOOSE i \in StmtIds(block) : StmtAt(block, i).kind = "Assign" /\ StmtAt(block, i).index = b

(***************************************************************************)
(* Hint collector: make_allocator_hints.                                   *)
(***************************************************************************)
RECURSIVE FlatStatements(_, _)
\* the statements of blocks b.. of the IR in program order
FlatStatements(code, b) ==
    IF b > Len(code) - 1 THEN <<>>
    ELSE BlockAt(code, b).statements \o FlatStatements(code, b + 1)

\* the Assign statements whose value has the given kind
AssignsOfKind(code, kind) ==
    {s \in Range(FlatStatements(code, 0)) : s.kind = "Assign" /\ s.value.kind = kind}

\* HintBuilder::value_is_memory over every Allocate
in_memory(code) == {s.index : s \in AssignsOfKind(code, "Allocate")}

\* HintBuilder::caught_zero over every Constant(0)
zeroes(code) == {s.index : s \in {t \in AssignsOfKind(code, "Constant") : t.value.k = 0}}

\* HintBuilder::is_return_from_call over every Call
returned_from_call(code) == {s.index : s \in AssignsOfKind(code, "Call")}

\* HintBuilder::caught_returned over every Return block end
used_in_return(code) ==
    {BlockAt(code, b).end.binding :
        b \in {x \in BlockIds(code) : BlockAt(code, x).end.kind = "Return"}}

\* the phi edges when an operand is not removed from its own set
is_phi_node_with_itself(code) ==
    LET phis == AssignsOfKind(code, "Phi")
        operands == UNION {Range(s.value.ops) : s \in phis}
    IN  [o \in operands |->
            UNION {Range(s.value.ops) : s \in {t \in phis : o \in Range(t.value.ops)}}]

\* HintBuilder::add_phi_edge over every operand of every phi: the other operands
is_phi_node_with(code) ==
    LET phis == AssignsOfKind(code, "Phi")
        operands == UNION {Range(s.value.ops) : s \in phis}
    IN  [o \in operands |->
            UNION {Range(s.value.ops) \ {o} : s \in {t \in phis : o \in Range(t.value.ops)}}]

\* HintBuilder::add_phi_node: one phi destination meets its operand set
add_phi_node(acc, target, others) ==
    IF target \in acc.locked THEN acc
    ELSE IF target \in DOMAIN acc.map
         THEN LET already_in == acc.map[target]
                  removed == RemoveKey(acc.map, target)
              IN  IF already_in \subseteq others
                  THEN [acc EXCEPT !.map = Insert(removed, target, already_in \cup others)]
                  ELSE IF ~(others \subseteq already_in)
                       THEN [map |-> removed, locked |-> acc.locked \cup {target}]
                       ELSE [acc EXCEPT !.map = removed]
         ELSE [acc EXCEPT !.map = Insert(acc.map, target, others)]

RECURSIVE FoldPhiNodes(_, _, _)
\* the loop of make_allocator_hints restricted to the phi destinations
FoldPhiNodes(stmts, i, acc) ==
    IF i > Len(stmts) THEN acc
    ELSE IF stmts[i].kind = "Assign" /\ stmts[i].value.kind = "Phi"
         THEN FoldPhiNodes(stmts, i + 1,
                           add_phi_node(acc, stmts[i].index, Range(stmts[i].value.ops)))
         ELSE FoldPhiNodes(stmts, i + 1, acc)

from_phi_node(code) ==
    FoldPhiNodes(FlatStatements(code, 0), 1, [map |-> EmptyMap, locked |-> {}]).map

(***************************************************************************)
(* Flag tracker: bindings defined by a Cmp that is the last statement of a *)
(* block ending in a conditional branch on it, and read nowhere else.      *)
(***************************************************************************)
get_used_flags(code) ==
    LET isFlag(b, blk) ==
            /\ blk.end.kind = "Conditional"
            /\ blk.end.binding = b
            /\ Len(blk.statements) > 0
            /\ blk.statements[Len(blk.statements)].kind = "Assign"
            /\ blk.statements[Len(blk.statements)].index = b
            /\ blk.statements[Len(blk.statements)].value.kind = "Cmp"
            /\ \A x \in BlockIds(code) :
                  LET other == BlockAt(code, x)
                  IN  UseIndices(other, b) \subseteq
                          (IF other = blk THEN {Len(blk.statements)} ELSE {})
        flags == {b \in AllDefined(code) :
                     \E x \in BlockIds(code) : isFlag(b, BlockAt(code, x))}
    IN  [b \in flags |-> "Cond"]

(***************************************************************************)
(* Per-block lifetimes: make_sorted_lifetimes.  A block lists the bindings *)
(* it defines and the bindings of other blocks it reads.  A binding starts *)
(* at its definition (0 when it comes from another block) and ends at its  *)
(* last use in the block, at the block end when it is read by another      *)
(* block only, and at its definition when it is never read.                *)
(***************************************************************************)
UsedElsewhere(code, blockId, b) ==
    \E x \in BlockIds(code) \ {blockId} : b \in UsedIn(BlockAt(code, x))

BlockLifetimes(code, blockId) ==
    LET block == BlockAt(code, blockId)
        defined == DefinedIn(block)
        liveIn == UsedIn(block) \ defined
        definedSeq == [p \in 1 .. Cardinality(defined) |->
                          StmtAt(block, SortedSeq({DefIndex(block, b) : b \in defined})[p]).index]
        start(b) == IF b \in defined THEN DefIndex(block, b) ELSE 0
        end(b) == IF UseIndices(block, b) # {}
                  THEN IF b \in defined /\ UsedElsewhere(code, blockId, b)
                       THEN Len(block.statements)
                       ELSE Max(UseIndices(block, b))
                  ELSE IF UsedElsewhere(code, blockId, b)
                       THEN Len(block.statements)
                       ELSE start(b)
    IN  [block_index |-> blockId,
         ordered_by_start |-> SortedSeq(liveIn) \o definedSeq,
         binding_starts |-> [b \in defined \cup liveIn |-> start(b)],
         binding_ends |-> [b \in defined \cup liveIn |-> end(b)]]

make_sorted_lifetimes(code) == [p \in 1 .. Len(code) |-> BlockLifetimes(code, p - 1)]

\* analysis::statements_with_addresses filtered to the Call statements
call_addresses(code) ==
    {<<b, i>> \in UNION {{<<x, j>> : j \in StmtIds(BlockAt(code, x))} : x \in BlockIds(code)} :
        /\ StmtAt(BlockAt(code, b), i).kind = "Assign"
        /\ StmtAt(BlockAt(code, b), i).value.kind = "Call"}

\* the bindings whose lifetime in a block strictly spans a Call statement
ComputeUsedThroughCall(code, lifetimes) ==
    UNION {LET block_lifetimes == lifetimes[addr[1] + 1]
           IN  {b \in Range(block_lifetimes.ordered_by_start) :
                   /\ block_lifetimes.binding_starts[b] < addr[2]
                   /\ block_lifetimes.binding_ends[b] > addr[2]}
           : addr \in call_addresses(code)}

\* the function a block belongs to: the first whose entry..=end range holds it
FunctionIndex(ir, block_index) ==
    LET endOf(f) == Max({p[1] : p \in {q \in ir.function_endpoints : q[2] = f}})
        holds(f) == ir.function_entrypoints[f + 1] <= block_index /\ block_index <= endOf(f)
    IN  Min({f \in 0 .. Len(ir.function_entrypoints) - 1 : holds(f)})

(***************************************************************************)
(* ActiveBindingSet and the pieces of linear_alloc_block.                  *)
(***************************************************************************)
\* the insertion that always pushes at the back
ActiveAddAtTheBack(bindings, binding, ends) == Append(bindings, binding)

\* ActiveBindingSet::add: insert before the first binding with a larger end
ActiveAdd(bindings, binding, ends) ==
    LET later == {i \in 1 .. Len(bindings) : ends[bindings[i]] > ends[binding]}
    IN  IF later = {} THEN Append(bindings, binding)
        ELSE SubSeq(bindings, 1, Min(later) - 1) \o <<binding>>
                 \o SubSeq(bindings, Min(later), Len(bindings))

\* ActiveBindingSet::remove: drop the first occurrence of the binding
ActiveRemove(bindings, binding) ==
    LET found == {i \in 1 .. Len(bindings) : bindings[i] = binding}
    IN  IF found = {} THEN bindings
        ELSE SubSeq(bindings, 1, Min(found) - 1) \o SubSeq(bindings, Min(found) + 1, Len(bindings))

\* the expiry that keeps a binding ending exactly at start
ExpiredCountStrictlyBefore(bindings, ends, start) ==
    LET alive == {i \in 1 .. Len(bindings) : ends[bindings[i]] >= start}
    IN  IF alive = {} THEN Len(bindings) ELSE Min(alive) - 1

\* number of leading active bindings expired at start: those before the first
\* one whose end is greater than start
ExpiredCount(bindings, ends, start) ==
    LET alive == {i \in 1 .. Len(bindings) : ends[bindings[i]] > start}
    IN  IF alive = {} THEN Len(bindings) ELSE Min(alive) - 1

RECURSIVE ReleaseDropped(_, _, _, _)
\* the drain loop: one use less of the register of each dropped binding
\* (ok is false when used[reg] is indexed without the key: a panic)
ReleaseDropped(dropped, i, regs, acc) ==
    IF i > Len(dropped) \/ ~acc.ok THEN acc
    ELSE LET reg == regs[dropped[i]]
         IN  IF reg \notin DOMAIN acc.used
             THEN [acc EXCEPT !.ok = FALSE]
             ELSE ReleaseDropped(dropped, i + 1, regs,
                      [acc EXCEPT !.used = IF acc.used[reg] = 1
                                           THEN RemoveKey(acc.used, reg)
                                           ELSE [acc.used EXCEPT ![reg] = @ - 1]])

\* first register of the candidate sequence that is not a key of used, as a set
FirstFree(candidates, usedMap) ==
    LET free == {i \in 1 .. Len(candidates) : RegisterFrom(candidates[i]) \notin DOMAIN usedMap}
    IN  IF free = {} THEN {} ELSE {RegisterFrom(candidates[Min(free)])}

\* i ..= j as a sequence
Seq_(i, j) == [p \in 1 .. (j - i + 1) |-> i + p - 1]

\* (19..=28)
CalleeSavedCandidates == Seq_(19, 28)

\* (0..15).chain(16..=30)
CallerSavedCandidates == Seq_(0, 14) \o Seq_(16, 30)

\* the ordinary search with the trailing chain(9..=15) left out
OrdinaryCandidatesUnchained == Seq_(0, 14) \o Seq_(16, 30)

\* (0..15).chain(16..=30).chain(9..=15)
OrdinaryCandidates == Seq_(0, 14) \o Seq_(16, 30) \o Seq_(9, 15)

\* the commit taking register index 0 for the zero register
RecordRegisterZeroForR0(regs, binding, register) ==
    Insert(regs, binding, IF register = GeneralPurpose(0) THEN ZeroRegister ELSE register)

\* registers.insert(binding, register) of the commit
RecordRegister(regs, binding, register) == Insert(regs, binding, register)

\* the self-spill with the insert into registers forgotten
RecordSpillForgotten(regs, binding) == regs

\* registers.insert(binding, StackPointer) of the self-spill
RecordSpill(regs, binding) == Insert(regs, binding, StackPointer)

(***************************************************************************)
(* The driver alloc_registers.                                             *)
(***************************************************************************)
\* the pre-pin loop: call returns that do not cross a call get r0
PrePin(returned, throughCall) ==
    [b \in {r \in returned : r \notin throughCall} |-> GeneralPurpose(0)]

\* the final filter left out: every call return
NeedMoveFromR0Unfiltered(returned, throughCall) == returned

\* the final filter: call returns that cross a call
NeedMoveFromR0(returned, throughCall) == {b \in returned : b \in throughCall}

RECURSIVE SortRegs(_)
\* saved.sort_unstable(): registers here are all GeneralPurpose, ordered by index
SortRegs(s) ==
    IF s = <<>> THEN <<>>
    ELSE LET m == Min({s[i].index : i \in 1 .. Len(s)})
             p == Min({i \in 1 .. Len(s) : s[i].index = m})
         IN  <<s[p]>> \o SortRegs(SubSeq(s, 1, p - 1) \o SubSeq(s, p + 1, Len(s)))

RECURSIVE Dedup(_)
\* saved.dedup(): drop consecutive repeats
Dedup(s) ==
    IF Len(s) <= 1 THEN s
    ELSE IF s[1] = s[2] THEN Dedup(Tail(s))
         ELSE <<s[1]>> \o Dedup(Tail(s))

\* the list sorted with its repeats left in
SortWithoutDedup(saved) == SortRegs(saved)

\* saved.sort_unstable(); saved.dedup();
SortAndDedup(saved) == Dedup(SortRegs(saved))

VARIABLES
    ir,                         \* the IR handed to alloc_registers
    debug_assertions,           \* whether the build checks debug_assert!
    pc,                         \* "start", "blocks", "in_block", "done", "panicked"
    all_lifetimes,              \* make_sorted_lifetimes(ir)
    used_through_call,
    phi_nodes,                  \* from_phi_node, consumed
    phi_edges,                  \* is_phi_node_with, consumed
    block,                      \* index of the block being allocated
    cursor,                     \* position in ordered_by_start of that block
    active,                     \* ActiveBindingSet.bindings
    used,                       \* RegisterID -> number of active users
    registers,
    callee_saved_per_function,
    save_upon_call,
    completely_spilled,
    need_move_from_r0,
    need_move_to_return_reg,
    stores_condition,
    step,                       \* what the last iteration of linear_alloc_block did
    panic,                      \* the message of the failed assertion, "" if none
    lifetimes,                  \* compute_lifetimes(ir), keyed by attached_binding
    precedes,                   \* the pairs of addresses happens_before answers true for
    with_locations,             \* compute_lifetime_collisions_with_locations
    collisions                  \* compute_lifetime_collisions(ir, lifetimes)

vars == <<ir, debug_assertions, pc, all_lifetimes, used_through_call, phi_nodes, phi_edges,
          block, cursor, active, used, registers, callee_saved_per_function, save_upon_call,
          completely_spilled, need_move_from_r0, need_move_to_return_reg, stores_condition,
          step, panic, lifetimes, precedes, with_locations, collisions>>

\* the state of the lifetime analysis, which alloc_registers does not touch
analysisVars == <<lifetimes, precedes, with_locations, collisions>>

NoStep == [kind |-> "none", binding |-> NoBinding, other |-> NoBinding, reg |-> StackPointer]

(***************************************************************************)
(* One iteration of the loop of linear_alloc_block.                        *)
(***************************************************************************)
\* the locations of the already allocated phi siblings of the binding
PhiEdgeAllocs(binding) ==
    IF binding \in DOMAIN phi_edges
    THEN {registers[e] : e \in phi_edges[binding] \cap DOMAIN registers}
    ELSE {}

\* the locations of the already allocated operands of the phi destination
PhiNodeAllocs(binding) ==
    IF binding \in DOMAIN phi_nodes
    THEN {registers[e] : e \in phi_nodes[binding] \cap DOMAIN registers}
    ELSE {}

\* the registers allocs.into_iter().next() may return for the binding
PhiPicks(binding) ==
    IF PhiEdgeAllocs(binding) # {} THEN PhiEdgeAllocs(binding)
    ELSE IF PhiNodeAllocs(binding) # {} THEN PhiNodeAllocs(binding)
    ELSE {StackPointer}

\* the failed assertion: the allocation stops where it is
Panicked(cur, kind, binding, message) ==
    [cur EXCEPT !.pc = "panicked", !.panic = message,
                !.step = [kind |-> kind, binding |-> binding, other |-> NoBinding,
                          reg |-> StackPointer]]

\* lines 563-570: the register found for the binding is committed
Commit(cur, kind, binding, register, ends, other) ==
    IF register \in DOMAIN cur.used
    THEN [Panicked([cur EXCEPT !.used = Insert(cur.used, register, 1)], kind, binding,
                   "this register shouldn't be being used!")
             EXCEPT !.step.other = other, !.step.reg = register]
    ELSE [cur EXCEPT !.used = Insert(cur.used, register, 1),
                     !.registers = RecordRegister(cur.registers, binding, register),
                     !.active = ActiveAdd(cur.active, binding, ends),
                     !.step = [kind |-> kind, binding |-> binding, other |-> other,
                               reg |-> register]]

\* the spill that also keeps the spilled binding in active
SpillToAcquireActivating(cur, binding, ends) ==
    IF cur.active = <<>>
    THEN Panicked(cur, "evict", binding, "active.last() of an empty list")
    ELSE LET longest_lived == cur.active[Len(cur.active)]
         IN  IF ends[longest_lived] > ends[binding]
             THEN LET reg == cur.registers[longest_lived]
                      evicted ==
                          [cur EXCEPT !.active = ActiveRemove(cur.active, longest_lived),
                                      !.completely_spilled = @ \cup {longest_lived},
                                      !.registers = Insert(cur.registers, longest_lived,
                                                           StackPointer),
                                      !.used = Insert(cur.used, reg, GetOr(cur.used, reg, 0) + 1)]
                  IN  Commit(evicted, "evict", binding, reg, ends, longest_lived)
             ELSE [cur EXCEPT !.completely_spilled = @ \cup {binding},
                              !.registers = RecordSpill(cur.registers, binding),
                              !.active = ActiveAdd(cur.active, binding, ends),
                              !.step = [kind |-> "spill", binding |-> binding,
                                        other |-> longest_lived, reg |-> StackPointer]]

\* lines 539-577: no register is free: evict the longest lived or spill the binding
SpillToAcquire(cur, binding, ends) ==
    IF cur.active = <<>>
    THEN Panicked(cur, "evict", binding, "active.last() of an empty list")
    ELSE LET longest_lived == cur.active[Len(cur.active)]
         IN  IF ends[longest_lived] > ends[binding]
             THEN LET reg == cur.registers[longest_lived]
                      evicted ==
                          [cur EXCEPT !.active = ActiveRemove(cur.active, longest_lived),
                                      !.completely_spilled = @ \cup {longest_lived},
                                      !.registers = Insert(cur.registers, longest_lived,
                                                           StackPointer),
                                      !.used = Insert(cur.used, reg, GetOr(cur.used, reg, 0) + 1)]
                  IN  Commit(evicted, "evict", binding, reg, ends, longest_lived)
             ELSE [cur EXCEPT !.completely_spilled = @ \cup {binding},
                              !.registers = RecordSpill(cur.registers, binding),
                              !.step = [kind |-> "spill", binding |-> binding,
                                        other |-> longest_lived, reg |-> StackPointer]]

\* lines 508-537: the search of a free register
FreeSearch(cur, binding, ends, function_index) ==
    IF binding \in used_through_call
    THEN IF FirstFree(CalleeSavedCandidates, cur.used) # {}
         THEN LET x == CHOOSE r \in FirstFree(CalleeSavedCandidates, cur.used) : TRUE
              IN  Commit([cur EXCEPT !.callee[function_index + 1] = Append(@, x)],
                         "callee_saved", binding, x, ends, NoBinding)
         ELSE IF FirstFree(CallerSavedCandidates, cur.used) # {}
              THEN LET reg == CHOOSE r \in FirstFree(CallerSavedCandidates, cur.used) : TRUE
                   IN  Commit([cur EXCEPT !.save_upon_call = @ \cup {binding}],
                              "caller_saved", binding, reg, ends, NoBinding)
              ELSE SpillToAcquire(cur, binding, ends)
    ELSE IF FirstFree(OrdinaryCandidates, cur.used) # {}
         THEN Commit(cur, "free", binding,
                     CHOOSE r \in FirstFree(OrdinaryCandidates, cur.used) : TRUE,
                     ends, NoBinding)
         ELSE SpillToAcquire(cur, binding, ends)

\* lines 451-506: the phi hints, then the search; pick is the element the
\* iteration of the set of locations yields first
PhiThenSearch(cur, binding, ends, function_index, pick) ==
    LET edgeAllocs == PhiEdgeAllocs(binding)
        nodeAllocs == PhiNodeAllocs(binding)
        noEdge == [cur EXCEPT !.phi_edges = RemoveKey(cur.phi_edges, binding)]
        noNode == [noEdge EXCEPT !.phi_nodes = RemoveKey(noEdge.phi_nodes, binding)]
    IN  IF edgeAllocs # {}
        THEN IF debug_assertions /\ Cardinality(edgeAllocs) # 1
             THEN Panicked(noEdge, "phi_edge", binding,
                           "Expecting all allocated edges to be in the same place")
             ELSE Commit(noEdge, "phi_edge", binding, pick, ends, NoBinding)
        ELSE IF binding \in DOMAIN phi_nodes
             THEN IF debug_assertions
                       /\ Cardinality(phi_nodes[binding] \cap DOMAIN registers)
                              # Cardinality(phi_nodes[binding])
                  THEN Panicked(noNode, "phi_node", binding,
                                "All phi nodes must have been previously allocated")
                  ELSE IF debug_assertions /\ Cardinality(nodeAllocs) # 1
                       THEN Panicked(noNode, "phi_node", binding,
                                     "All allocated phi nodes must be on the same register")
                       ELSE IF nodeAllocs = {}
                            THEN Panicked(noNode, "phi_node", binding,
                                          "called Option::unwrap() on a None value")
                            ELSE Commit(noNode, "phi_node", binding, pick, ends, NoBinding)
             ELSE FreeSearch(noEdge, binding, ends, function_index)

\* the flag test answering no for every binding
StoresConditionNever(binding) == FALSE

\* codegen_hints.stores_condition.contains_key(&binding)
StoresCondition(binding) == binding \in DOMAIN stores_condition

\* the whole iteration for the binding at the cursor
Iteration(binding, starts, ends, function_index, pick) ==
    LET end_i == ExpiredCount(active, ends, starts[binding])
        released == ReleaseDropped(SubSeq(active, 1, end_i), 1, registers,
                                   [used |-> used, ok |-> TRUE])
        cur == [pc |-> "in_block", panic |-> "", step |-> NoStep,
                active |-> SubSeq(active, end_i + 1, Len(active)),
                used |-> released.used,
                registers |-> registers,
                callee |-> callee_saved_per_function,
                save_upon_call |-> save_upon_call,
                completely_spilled |-> completely_spilled,
                phi_nodes |-> phi_nodes,
                phi_edges |-> phi_edges]
    IN  IF ~released.ok
        THEN Panicked(cur, "expire", binding, "used[reg]: key not found")
        ELSE IF StoresCondition(binding)
             THEN [cur EXCEPT !.step = [kind |-> "flag", binding |-> binding,
                                        other |-> NoBinding, reg |-> StackPointer]]
             ELSE IF binding \in DOMAIN registers
                  THEN LET already_allocated == registers[binding]
                       IN  [cur EXCEPT
                               !.used = Insert(cur.used, already_allocated,
                                               GetOr(cur.used, already_allocated, 0) + 1),
                               !.active = ActiveAdd(cur.active, binding, ends),
                               !.step = [kind |-> "already", binding |-> binding,
                                         other |-> NoBinding, reg |-> already_allocated]]
                  ELSE PhiThenSearch(cur, binding, ends, function_index, pick)

\* the most blocks of a generated control-flow graph
MaxBlocks == 3

(***************************************************************************)
(* The input family.                                                       *)
(***************************************************************************)
\* int main() { return k; }
ReturnConstant(k) == SingleFunction(<<BasicBlock(<<Assign(0, Constant(k))>>, Return(0))>>)

\* int main() { return 5 > 1 + 2; }
CompareAndReturn ==
    SingleFunction(<<BasicBlock(<<Assign(0, Constant(5)), Assign(1, Constant(1)),
                                  Assign(2, Constant(2)), Assign(3, Add(1, 2)),
                                  Assign(4, Cmp(0, 3))>>, Return(4))>>)

\* an if whose two branches assign constants merged by a phi
PhiOverIf ==
    SingleFunction(<<BasicBlock(<<Assign(0, Constant(1)), Assign(1, Constant(2)),
                                  Assign(2, Cmp(0, 1))>>, Conditional(2, 1, 2)),
                     BasicBlock(<<Assign(3, Constant(5))>>, Unconditional(3)),
                     BasicBlock(<<Assign(4, Constant(6))>>, Unconditional(3)),
                     BasicBlock(<<Assign(5, Phi(<<3, 4>>))>>, Return(5))>>)

\* x = f(); y = g(); return x + y;
CallCrossing ==
    SingleFunction(<<BasicBlock(<<Assign(0, Call(<<>>)), Assign(1, Call(<<>>)),
                                  Assign(2, Add(0, 1))>>, Return(2))>>)

\* the block of tests::same_block_noncolliding
MemoryBlock ==
    SingleFunction(<<BasicBlock(<<Assign(0, Allocate), Assign(1, Constant(3)), Store(0, 1),
                                  Assign(2, Allocate), Store(2, 1)>>, Return(1))>>)

\* a phi whose destination is itself an operand of a later phi fed by a call
PhiChain ==
    SingleFunction(<<BasicBlock(<<Assign(0, Constant(1)), Assign(1, Constant(5)),
                                  Assign(2, Cmp(0, 1))>>, Conditional(2, 1, 2)),
                     BasicBlock(<<Assign(3, Constant(6))>>, Unconditional(2)),
                     BasicBlock(<<Assign(4, Phi(<<1, 3>>)), Assign(5, Cmp(4, 4))>>,
                                Conditional(5, 3, 4)),
                     BasicBlock(<<Assign(6, Call(<<>>))>>, Unconditional(4)),
                     BasicBlock(<<Assign(7, Phi(<<4, 6>>))>>, Return(7))>>)

\* a phi operand that is live across a call in its branch
PhiCallCrossing ==
    SingleFunction(<<BasicBlock(<<Assign(0, Constant(1)), Assign(1, Constant(5)),
                                  Assign(2, Cmp(0, 1))>>, Conditional(2, 1, 2)),
                     BasicBlock(<<Assign(3, Constant(6)), Assign(4, Call(<<>>)),
                                  Assign(5, Add(3, 4))>>, Unconditional(2)),
                     BasicBlock(<<Assign(6, Phi(<<1, 3>>))>>, Return(6))>>)

\* a phi operand whose sibling is still live in the block of the phi
PhiSiblingLive ==
    SingleFunction(<<BasicBlock(<<Assign(0, Constant(1)), Assign(1, Constant(2)),
                                  Assign(2, Cmp(0, 1))>>, Conditional(2, 1, 2)),
                     BasicBlock(<<Assign(3, Constant(5))>>, Unconditional(3)),
                     BasicBlock(<<Assign(4, Constant(6))>>, Unconditional(3)),
                     BasicBlock(<<Assign(5, Phi(<<3, 4>>)), Assign(6, Add(5, 3))>>,
                                Return(6))>>)

\* two phis sharing an operand whose siblings sit in different registers
PhiDisagree ==
    SingleFunction(<<BasicBlock(<<Assign(0, Call(<<>>)), Assign(1, Constant(7)),
                                  Assign(2, Cmp(0, 1))>>, Conditional(2, 1, 2)),
                     BasicBlock(<<Assign(3, Constant(5))>>, Unconditional(2)),
                     BasicBlock(<<Assign(4, Phi(<<0, 3>>)), Assign(5, Phi(<<1, 3>>)),
                                  Assign(6, Add(4, 5))>>, Return(6))>>)

\* a phi whose operand is defined in a later block (a loop back edge)
PhiLoop ==
    SingleFunction(<<BasicBlock(<<Assign(0, Constant(1))>>, Unconditional(1)),
                     BasicBlock(<<Assign(1, Phi(<<0, 2>>)), Assign(2, Add(1, 1)),
                                  Assign(3, Cmp(2, 2))>>, Conditional(3, 1, 2)),
                     BasicBlock(<<>>, Return(2))>>)

\* two functions of one block each, both with a binding live across a call
TwoFunctions ==
    [code |-> <<BasicBlock(<<Assign(0, Call(<<>>)), Assign(1, Call(<<>>)),
                             Assign(2, Add(0, 1))>>, Return(2)),
                BasicBlock(<<Assign(3, Constant(4)), Assign(4, Call(<<>>)),
                             Assign(5, Call(<<>>)), Assign(6, Add(3, 4))>>, Return(6))>>,
     function_entrypoints |-> <<0, 1>>,
     function_endpoints |-> {<<0, 0>>, <<1, 1>>}]

\* one function whose two blocks each keep a binding across a call
RepeatedCallCrossing ==
    SingleFunction(<<BasicBlock(<<Assign(0, Constant(1)), Assign(1, Constant(2)),
                                  Assign(2, Call(<<>>)), Assign(3, Add(0, 1))>>,
                                Unconditional(1)),
                     BasicBlock(<<Assign(4, Constant(3)), Assign(5, Call(<<>>)),
                                  Assign(6, Add(4, 5))>>, Return(6))>>)

\* n constants live together, then (optionally) a call, then a chain of adds
\* that reads them newest first or oldest first
Pressure(n, withCall, newestFirst) ==
    LET order == [p \in 1 .. n |-> IF newestFirst THEN n - p ELSE p - 1]
        consts == [p \in 1 .. n |-> Assign(p - 1, Constant(p))]
        calls == IF withCall THEN <<Assign(n, Call(<<>>))>> ELSE <<>>
        base == n + Len(calls)
        first == IF withCall THEN n ELSE order[1]
        eaten == IF withCall THEN order ELSE Tail(order)
        adds == [p \in 1 .. Len(eaten) |->
                    Assign(base + p - 1,
                           Add(IF p = 1 THEN first ELSE base + p - 2, eaten[p]))]
        last == IF Len(eaten) = 0 THEN first ELSE base + Len(eaten) - 1
    IN  SingleFunction(<<BasicBlock(consts \o calls \o adds, Return(last))>>)

\* one constant more than there are registers, all read after the last is
\* defined, so that the last one spills itself; then an if whose branch
\* defines a value merged with the spilled constant by a phi
PhiOverSpilled ==
    LET n == Cardinality(Range(Seq_(0, 14) \o Seq_(16, 30) \o Seq_(9, 15))) + 1
        head == Pressure(n, FALSE, FALSE).code[1].statements
        total == 2 * n - 2
        flag == total + 1
        branch == total + 2
        merged == total + 3
    IN  SingleFunction(<<BasicBlock(head \o <<Assign(flag, Cmp(total, total))>>,
                                    Conditional(flag, 1, 2)),
                         BasicBlock(<<Assign(branch, Constant(7))>>, Unconditional(2)),
                         BasicBlock(<<Assign(merged, Phi(<<n - 1, branch>>))>>,
                                    Return(merged))>>)

PressurePrograms ==
    {Pressure(n, c, o) : n \in 1 .. MaxPressure, c \in BOOLEAN, o \in BOOLEAN}

\* the values statement i of a generated block may assign
GenValues(i) ==
    {Constant(0), Constant(5), Allocate, Call(<<>>)}
        \cup {Call(<<a>>) : a \in 0 .. i - 1}
        \cup {Add(a, b) : a \in 0 .. i - 1, b \in 0 .. i - 1}

\* every straight-line block of n statements returning one of its bindings
GenPrograms(n) ==
    {SingleFunction(<<BasicBlock([p \in 1 .. n |-> Assign(p - 1, vs[p])], Return(r))>>) :
        vs \in {f \in [1 .. n -> GenValues(n)] : \A p \in 1 .. n : f[p] \in GenValues(p - 1)},
        r \in 0 .. n - 1}

Catalogue ==
    {ReturnConstant(5), ReturnConstant(0), CompareAndReturn, PhiOverIf, CallCrossing,
     MemoryBlock, PhiChain, PhiCallCrossing, PhiSiblingLive, PhiDisagree, PhiLoop,
     TwoFunctions, RepeatedCallCrossing}

\* the inputs of the allocator, the generated blocks having at most the given
\* number of statements
Programs(most) ==
    Catalogue \cup {PhiOverSpilled} \cup PressurePrograms
        \cup UNION {GenPrograms(n) : n \in 1 .. most}

(***************************************************************************)
(* The state machine.                                                      *)
(***************************************************************************)
\* the builds that can behave differently on the IR: debug assertions only
\* guard the phi hints
Builds(code) == IF AssignsOfKind(code.code, "Phi") = {} THEN {FALSE} ELSE BOOLEAN

\* alloc_registers is entered with the IR and the hints of make_allocator_hints
Init ==
    /\ ir \in Programs(MaxStmts)
    /\ debug_assertions \in Builds(ir)
    /\ pc = "start"
    /\ all_lifetimes = <<>>
    /\ used_through_call = {}
    /\ phi_nodes = from_phi_node(ir.code)
    /\ phi_edges = is_phi_node_with(ir.code)
    /\ block = 0
    /\ cursor = 0
    /\ active = <<>>
    /\ used = EmptyMap
    /\ registers = EmptyMap
    /\ callee_saved_per_function = <<>>
    /\ save_upon_call = {}
    /\ completely_spilled = {}
    /\ need_move_from_r0 = {}
    /\ need_move_to_return_reg = {}
    /\ stores_condition = EmptyMap
    /\ step = NoStep
    /\ panic = ""
    /\ lifetimes = EmptyMap
    /\ precedes = {}
    /\ with_locations = EmptyMap
    /\ collisions = EmptyMap

\* alloc_registers up to the loop over the blocks: the analyses and the pre-pin
Setup ==
    /\ pc = "start"
    /\ pc' = "blocks"
    /\ callee_saved_per_function' = [f \in 1 .. Len(ir.function_entrypoints) |-> <<>>]
    /\ stores_condition' = get_used_flags(ir.code)
    /\ all_lifetimes' = make_sorted_lifetimes(ir.code)
    /\ used_through_call' = ComputeUsedThroughCall(ir.code, make_sorted_lifetimes(ir.code))
    /\ registers' = PrePin(returned_from_call(ir.code),
                           ComputeUsedThroughCall(ir.code, make_sorted_lifetimes(ir.code)))
    /\ block' = 0
    /\ UNCHANGED <<ir, debug_assertions, phi_nodes, phi_edges, cursor, active, used,
                   save_upon_call, completely_spilled, need_move_from_r0,
                   need_move_to_return_reg, step, panic>>
    /\ UNCHANGED analysisVars

\* linear_alloc_block is called for the next block: fresh active and used
EnterBlock ==
    /\ pc = "blocks"
    /\ block < Len(ir.code)
    /\ pc' = "in_block"
    /\ cursor' = 1
    /\ active' = <<>>
    /\ used' = EmptyMap
    /\ UNCHANGED <<ir, debug_assertions, all_lifetimes, used_through_call, phi_nodes,
                   phi_edges, block, registers, callee_saved_per_function, save_upon_call,
                   completely_spilled, need_move_from_r0, need_move_to_return_reg,
                   stores_condition, step, panic>>
    /\ UNCHANGED analysisVars

\* one iteration of the loop over ordered_by_start
LinearAllocStep ==
    /\ pc = "in_block"
    /\ cursor <= Len(all_lifetimes[block + 1].ordered_by_start)
    /\ LET lt == all_lifetimes[block + 1]
           binding == lt.ordered_by_start[cursor]
       IN  \E pick \in PhiPicks(binding) :
             LET res == Iteration(binding, lt.binding_starts, lt.binding_ends,
                                  FunctionIndex(ir, lt.block_index), pick)
             IN  /\ pc' = res.pc
                 /\ panic' = res.panic
                 /\ step' = res.step
                 /\ active' = res.active
                 /\ used' = res.used
                 /\ registers' = res.registers
                 /\ callee_saved_per_function' = res.callee
                 /\ save_upon_call' = res.save_upon_call
                 /\ completely_spilled' = res.completely_spilled
                 /\ phi_nodes' = res.phi_nodes
                 /\ phi_edges' = res.phi_edges
    /\ cursor' = cursor + 1
    /\ UNCHANGED <<ir, debug_assertions, all_lifetimes, used_through_call, block,
                   need_move_from_r0, need_move_to_return_reg, stores_condition>>
    /\ UNCHANGED analysisVars

\* linear_alloc_block returns: the driver moves to the next block
LeaveBlock ==
    /\ pc = "in_block"
    /\ cursor > Len(all_lifetimes[block + 1].ordered_by_start)
    /\ pc' = "blocks"
    /\ block' = block + 1
    /\ UNCHANGED <<ir, debug_assertions, all_lifetimes, used_through_call, phi_nodes,
                   phi_edges, cursor, active, used, registers, callee_saved_per_function,
                   save_upon_call, completely_spilled, need_move_from_r0,
                   need_move_to_return_reg, stores_condition, step, panic>>
    /\ UNCHANGED analysisVars

\* after the last block: sort and dedup the callee-saved lists, collect the
\* call returns that need a move, return the hints
Finish ==
    /\ pc = "blocks"
    /\ block = Len(ir.code)
    /\ pc' = "done"
    /\ callee_saved_per_function' =
          [f \in DOMAIN callee_saved_per_function |->
              SortAndDedup(callee_saved_per_function[f])]
    /\ need_move_from_r0' = NeedMoveFromR0(returned_from_call(ir.code), used_through_call)
    /\ UNCHANGED <<ir, debug_assertions, all_lifetimes, used_through_call, phi_nodes,
                   phi_edges, block, cursor, active, used, registers, save_upon_call,
                   completely_spilled, need_move_to_return_reg, stores_condition, step,
                   panic>>
    /\ UNCHANGED analysisVars

Next == Setup \/ EnterBlock \/ LinearAllocStep \/ LeaveBlock \/ Finish

Spec == Init /\ [][Next]_vars

(***************************************************************************)
(* Vocabulary of the properties.                                           *)
(***************************************************************************)
\* alloc_registers has returned its CodegenHints
Done == pc = "done"

R0 == GeneralPurpose(0)

\* the block a binding is defined in
DefBlock(b) == CHOOSE x \in BlockIds(ir.code) : b \in DefinedIn(BlockAt(ir.code, x))

\* the lifetimes of a and b overlap strictly inside some block
Collides(a, b) ==
    \E p \in DOMAIN all_lifetimes :
        LET lt == all_lifetimes[p]
        IN  /\ a \in DOMAIN lt.binding_starts
            /\ b \in DOMAIN lt.binding_starts
            /\ \/ lt.binding_starts[a] < lt.binding_starts[b]
                    /\ lt.binding_starts[b] < lt.binding_ends[a]
               \/ lt.binding_starts[b] < lt.binding_starts[a]
                    /\ lt.binding_starts[a] < lt.binding_ends[b]

\* the phi assignments of the IR
PhiAssigns == AssignsOfKind(ir.code, "Phi")

\* a and b are destination or operand of one phi assignment
SamePhi(a, b) ==
    \E s \in PhiAssigns : {a, b} \subseteq ({s.index} \cup Range(s.value.ops))

\* b is mapped to a register that is not the stack
InRegister(b) == b \in DOMAIN registers /\ registers[b] # StackPointer

\* the lifetime of b strictly spans a Call statement other than its own definition
SpansAnotherCall(b) ==
    \E addr \in call_addresses(ir.code) :
        LET lt == make_sorted_lifetimes(ir.code)[addr[1] + 1]
        IN  /\ StmtAt(BlockAt(ir.code, addr[1]), addr[2]).index # b
            /\ b \in DOMAIN lt.binding_starts
            /\ lt.binding_starts[b] < addr[2]
            /\ addr[2] < lt.binding_ends[b]

\* the register of b is one of r19..=r28
InCalleeSaved(b) ==
    /\ b \in DOMAIN registers
    /\ IsGpr(registers[b])
    /\ registers[b].index \in 19 .. 28

\* the callee-saved list of the function b is defined in
CalleeSavedOf(b) == Range(callee_saved_per_function[FunctionIndex(ir, DefBlock(b)) + 1])

(***************************************************************************)
(* C1: after alloc_registers, two distinct bindings whose lifetimes        *)
(* collide inside a block and that are both in a non-Stack register have   *)
(* different registers, unless both are Zero or both are in one phi.       *)
(***************************************************************************)
C1_DisjointLiveRegisters ==
    Done =>
        \A a \in DOMAIN registers : \A b \in DOMAIN registers :
            (a # b /\ Collides(a, b) /\ InRegister(a) /\ InRegister(b))
                => \/ registers[a] # registers[b]
                   \/ registers[a] = ZeroRegister /\ registers[b] = ZeroRegister
                   \/ SamePhi(a, b)

(***************************************************************************)
(* C2: after alloc_registers, the destination of every phi whose           *)
(* destination and operands are all in non-Stack registers has the         *)
(* register of each of its operands.                                       *)
(***************************************************************************)
C2_PhiCoalescing ==
    Done =>
        \A s \in PhiAssigns :
            (\A x \in {s.index} \cup Range(s.value.ops) : InRegister(x))
                => \A o \in Range(s.value.ops) : registers[s.index] = registers[o]

C4_CallCrossingDiscipline ==
    Done =>
        \A b \in used_through_call \cap DOMAIN registers :
            IsGpr(registers[b])
                => \/ InCalleeSaved(b) /\ registers[b] \in CalleeSavedOf(b)
                   \/ b \in save_upon_call

(***************************************************************************)
(* C5: in the returned CodegenHints every binding of in_memory (defined by *)
(* an Allocate) is mapped to Stack.                                        *)
(***************************************************************************)
C5_MemoryBindingsOnStack ==
    Done =>
        \A b \in in_memory(ir.code) : b \in DOMAIN registers /\ registers[b] = StackPointer

(***************************************************************************)
(* C6: a binding defined by Constant(0) (a member of zeroes) is mapped to  *)
(* the Zero register by alloc_registers.                                   *)
(***************************************************************************)
C6_ZeroConstantInZeroRegister ==
    Done =>
        \A b \in zeroes(ir.code) : b \in DOMAIN registers /\ registers[b] = ZeroRegister

(***************************************************************************)
(* C7: after alloc_registers returns, every binding defined by an Assign   *)
(* is a key of registers or a key of stores_condition.                     *)
(***************************************************************************)
C7_EveryBindingHasOutcome ==
    Done => AllDefined(ir.code) \subseteq (DOMAIN registers \cup DOMAIN stores_condition)

\* a finished allocation in which a binding was spilled by itself
C7_Witness ==
    /\ Done
    /\ completely_spilled # {}
    /\ AllDefined(ir.code) \ DOMAIN stores_condition # {}

(***************************************************************************)
(* C8: after alloc_registers, every register of r19..=r28 that a binding   *)
(* of a function is mapped to is listed in callee_saved_per_function of    *)
(* that function.                                                          *)
(***************************************************************************)
C8_CalleeSavedListed ==
    Done =>
        \A b \in DOMAIN registers \cap AllDefined(ir.code) :
            InCalleeSaved(b) => registers[b] \in CalleeSavedOf(b)

(***************************************************************************)
(* C9: when the binding finds no free register and the active binding      *)
(* with the latest end ends after it, the step completes normally: the     *)
(* evicted binding is spilled to Stack and removed from active, and the    *)
(* binding takes the register it held and enters active.                   *)
(***************************************************************************)
C9_EvictionCompletes ==
    step.kind = "evict" =>
        /\ pc # "panicked"
        /\ step.other \in completely_spilled
        /\ registers[step.other] = StackPointer
        /\ step.other \notin Range(active)
        /\ step.binding \in DOMAIN registers
        /\ registers[step.binding] = step.reg
        /\ step.binding \in Range(active)

(***************************************************************************)
(* C10: after alloc_registers, every binding of used_in_return is mapped   *)
(* to r0 or is a member of need_move_to_return_reg.                        *)
(***************************************************************************)
C10_ReturnedInReturnRegister ==
    Done =>
        \A b \in used_in_return(ir.code) :
            \/ b \in DOMAIN registers /\ registers[b] = R0
            \/ b \in need_move_to_return_reg

(***************************************************************************)
(* C11: for an IR without any Call in which no block ever has more         *)
(* simultaneously live bindings than there are allocatable registers,      *)
(* alloc_registers returns with completely_spilled, save_upon_call and     *)
(* need_move_to_return_reg empty and with no binding mapped to the stack.  *)
(***************************************************************************)
\* the IR has no Call statement
NoCalls == call_addresses(ir.code) = {}

\* the registers an allocation can hand out: r0 ..= r30
AllocatableRegisters == {GeneralPurpose(i) : i \in 0 .. 30}

\* the bindings of the block that are live when b starts
LiveWith(lt, b) ==
    {a \in DOMAIN lt.binding_starts :
        /\ a # b
        /\ lt.binding_starts[a] <= lt.binding_starts[b]
        /\ lt.binding_ends[a] > lt.binding_starts[b]}

\* the most bindings live together with a starting one, over all the blocks
LivePressure ==
    LET lts == make_sorted_lifetimes(ir.code)
    IN  Max({0} \cup UNION {{Cardinality(LiveWith(lts[p], b)) + 1 :
                                b \in DOMAIN lts[p].binding_starts} : p \in DOMAIN lts})

FitsInRegisters == LivePressure <= Cardinality(AllocatableRegisters)

StepOutcomes ==
    IF pc = "in_block" /\ cursor <= Len(all_lifetimes[block + 1].ordered_by_start)
    THEN LET lt == all_lifetimes[block + 1]
             binding == lt.ordered_by_start[cursor]
         IN  {Iteration(binding, lt.binding_starts, lt.binding_ends,
                        FunctionIndex(ir, lt.block_index), pick) :
                 pick \in PhiPicks(binding)}
    ELSE {}

C12_IterationOrderIrrelevant == Cardinality(StepOutcomes) <= 1

(***************************************************************************)
(* C13: in the returned hints every callee_saved_per_function[i] is        *)
(* strictly ascending (sorted, no register twice), however many bindings   *)
(* of function i were given the same callee-saved register in different    *)
(* blocks, and there is exactly one list per function entrypoint.          *)
(***************************************************************************)
StrictlyAscending(s) == \A i \in 1 .. Len(s) - 1 : s[i].index < s[i + 1].index

C13_CalleeSavedSortedDeduped ==
    Done =>
        /\ Len(callee_saved_per_function) = Len(ir.function_entrypoints)
        /\ \A f \in DOMAIN callee_saved_per_function :
              StrictlyAscending(callee_saved_per_function[f])

\* two bindings of one function took the same callee-saved register in
\* different blocks, and the list of that function holds several registers
C13_Witness ==
    /\ Done
    /\ \E a \in used_through_call, b \in used_through_call :
          /\ DefBlock(a) # DefBlock(b)
          /\ FunctionIndex(ir, DefBlock(a)) = FunctionIndex(ir, DefBlock(b))
          /\ InCalleeSaved(a)
          /\ InCalleeSaved(b)
          /\ registers[a] = registers[b]
          /\ Len(callee_saved_per_function[FunctionIndex(ir, DefBlock(a)) + 1]) >= 2

(***************************************************************************)
(* C14: in every state reached by alloc_registers no binding outside       *)
(* zeroes is mapped to the Zero register: whatever a step (pre-pin,        *)
(* free-register search, phi hint adoption, eviction) writes into          *)
(* registers for such a binding is another location.                       *)
(***************************************************************************)
C14_ZeroOnlyForZeroes ==
    \A b \in DOMAIN registers :
        registers[b] = ZeroRegister => b \in zeroes(ir.code)

\* the free-register search or a phi hint has just mapped a binding that is
\* not a zero constant
C14_Witness ==
    /\ step.kind \in {"free", "phi_edge", "phi_node", "callee_saved", "caller_saved"}
    /\ step.binding \in DOMAIN registers
    /\ step.binding \notin zeroes(ir.code)
    /\ zeroes(ir.code) # {}

(***************************************************************************)
(* C20: in every state reached by alloc_registers, no key of               *)
(* stores_condition is a key of registers, a member of completely_spilled  *)
(* or a member of the active set: a binding whose value lives in the CPU   *)
(* flags never takes a register or a stack slot.                           *)
(***************************************************************************)
C20_FlagsTakeNoLocation ==
    DOMAIN stores_condition
        \cap (DOMAIN registers \cup completely_spilled \cup Range(active)) = {}

\* the loop has just skipped a flag binding while other bindings are active
C20_Witness ==
    /\ step.kind = "flag"
    /\ step.binding \in DOMAIN stores_condition
    /\ active # <<>>
    /\ registers # EmptyMap

(***************************************************************************)
(* The lifetime analysis of intermediate/analysis/lifetimes.rs.  A         *)
(* BlockAddress { block, statement } is the pair <<block, statement>>.     *)
(***************************************************************************)
\* ir.forward_map: the targets of the end of every block
forward_map(code) ==
    [b \in BlockIds(code) |-> SortedSeq(Range(BlockAt(code, b).end.targets))]

\* ir.backwards_map: the blocks that branch to every block
backwards_map(code) ==
    [b \in BlockIds(code) |->
        SortedSeq({x \in BlockIds(code) : b \in Range(BlockAt(code, x).end.targets)})]

RECURSIVE Traversal(_, _, _)
\* breadth-first walk over an adjacency map, every block yielded once
Traversal(adj, queue, visited) ==
    IF queue = <<>> THEN <<>>
    ELSE LET b == Head(queue)
             fresh == Range(adj[b]) \ visited
         IN  <<b>> \o Traversal(adj, Tail(queue) \o SortedSeq(fresh), visited \cup fresh)

\* analysis::predecessors(ir, k): k itself, then the blocks reached from k
\* along the branches
predecessors(code, k) == Traversal(forward_map(code), <<k>>, {k})

\* analysis::antecessors(ir, k): the blocks from which k is reached by at
\* least one branch (k itself when it lies on a cycle)
antecessors(code, k) ==
    LET first == Range(backwards_map(code)[k])
    IN  Traversal(backwards_map(code), SortedSeq(first), first)

\* the comparison of the same-block case with <= for <
happens_before_or_at(code, self, other) ==
    \/ self[1] = other[1] /\ self[2] <= other[2]
    \/ \E a \in Range(antecessors(code, other[1])) : a = self[1]

\* BlockAddress::happens_before
happens_before(code, self, other) ==
    \/ self[1] = other[1] /\ self[2] < other[2]
    \/ \E a \in Range(antecessors(code, other[1])) : a = self[1]

\* every address of the IR, the block ends included
Addresses(code) ==
    UNION {{<<b, i>> : i \in 0 .. Len(BlockAt(code, b).statements)} : b \in BlockIds(code)}

\* get_defs: the address of the Assign defining every binding
get_defs(code) ==
    [key \in AllDefined(code) |->
        LET b == CHOOSE x \in BlockIds(code) : key \in DefinedIn(BlockAt(code, x))
        IN  <<b, DefIndex(BlockAt(code, b), key)>>]

\* all bindings read somewhere in the IR
AllUsed(code) == UNION {UsedIn(BlockAt(code, b)) : b \in BlockIds(code)}

\* get_lifetime_ends #1: per binding, the last index reading it in every block
all_block_ends(code) ==
    [dep \in AllUsed(code) |->
        [b \in {x \in BlockIds(code) : UseIndices(BlockAt(code, x), dep) # {}} |->
            Max(UseIndices(BlockAt(code, b), dep))]]

\* the ends when no candidate block is dropped
prune_block_ends_keeping_all(code, die_map) == {<<k, die_map[k]>> : k \in DOMAIN die_map}

\* get_lifetime_ends #2: drop the blocks that have another candidate further on
prune_block_ends(code, die_map) ==
    LET to_remove ==
            {k \in DOMAIN die_map :
                \E child \in Range(Tail(predecessors(code, k))) : child \in DOMAIN die_map}
    IN  {<<k, die_map[k]>> : k \in DOMAIN die_map \ to_remove}

get_lifetime_ends(code) ==
    [binding \in DOMAIN all_block_ends(code) |->
        prune_block_ends(code, all_block_ends(code)[binding])]

Lifetime(attached_binding, start, ends) ==
    [attached_binding |-> attached_binding, start |-> start, ends |-> ends]

\* compute_lifetimes: a defined binding that is never read gets no end
compute_lifetimes(code) ==
    LET die_map == get_lifetime_ends(code)
        defs == get_defs(code)
    IN  [key \in DOMAIN defs |->
            Lifetime(key, defs[key], IF key \in DOMAIN die_map THEN die_map[key] ELSE {})]

\* the assertion at the head of Lifetime::find_intersections
EndsAsserted(self, other) == self.ends # {} /\ other.ends # {}

\* the intersections with every end of the earlier lifetime kept
find_intersections_every_end(self, other, code) ==
    IF happens_before(code, self.start, other.start)
    THEN {<<self.start, a_end>> : a_end \in self.ends}
    ELSE IF happens_before(code, other.start, self.start)
         THEN {<<other.start, b_end>> : b_end \in other.ends}
         ELSE {}

\* Lifetime::find_intersections past its assertion
find_intersections(self, other, code) ==
    IF happens_before(code, self.start, other.start)
    THEN {<<self.start, a_end>> :
             a_end \in {e \in self.ends : happens_before(code, other.start, e)}}
    ELSE IF happens_before(code, other.start, self.start)
         THEN {<<other.start, b_end>> :
                  b_end \in {e \in other.ends : happens_before(code, self.start, e)}}
         ELSE {}

\* some call of find_intersections made by the collision pass fails its assertion
CollisionsPanic(lts) ==
    \E k \in DOMAIN lts, l \in DOMAIN lts : k # l /\ ~EndsAsserted(lts[k], lts[l])

\* compute_lifetime_collisions_with_locations
compute_lifetime_collisions_with_locations(code, lts) ==
    [k \in DOMAIN lts |->
        [l \in {o \in DOMAIN lts \ {k} : find_intersections(lts[k], lts[o], code) # {}} |->
            find_intersections(lts[k], lts[l], code)]]

\* ir.get_statement(address): nothing at the index of the block end
get_statement(code, address) ==
    IF address[2] < Len(BlockAt(code, address[1]).statements)
    THEN StmtAt(BlockAt(code, address[1]), address[2])
    ELSE [kind |-> "None", index |-> NoBinding, value |-> Constant(0)]

\* the closure given to locations.retain: drop a location whose end is a phi
\* naming both bindings
retain_location(code, k, collision, location) ==
    LET st == get_statement(code, location[2])
    IN  IF st.kind = "Assign" /\ st.value.kind = "Phi"
        THEN ~(k \in Range(st.value.ops) /\ collision \in Range(st.value.ops))
        ELSE TRUE

\* compute_lifetime_collisions over the map with locations
compute_lifetime_collisions(code, locs) ==
    [k \in DOMAIN locs |->
        {collision \in DOMAIN locs[k] :
            \E location \in locs[k][collision] : retain_location(code, k, collision, location)}]

(***************************************************************************)
(* The inputs of the lifetime analysis.                                    *)
(***************************************************************************)
\* the two blocks of tests::block_address::happens_before_loop
HappensBeforeLoop ==
    SingleFunction(<<BasicBlock(<<Assign(0, Constant(2))>>, Unconditional(1)),
                     BasicBlock(<<Assign(1, Constant(3))>>, Unconditional(0))>>)

\* the triangle of tests::no_blocks_in_common
NoBlocksInCommon ==
    [code |-> <<BasicBlock(<<Assign(0, Constant(0))>>, Conditional(0, 1, 2)),
                BasicBlock(<<Assign(1, Constant(1))>>, Return(1)),
                BasicBlock(<<Assign(2, Constant(0))>>, Return(2))>>,
     function_entrypoints |-> <<0>>,
     function_endpoints |-> {<<1, 0>>, <<2, 0>>}]

\* a loop whose body is an if/else merged by a phi; the else branch can
\* leave the loop and its binding is returned after the loop
LoopPhiExit ==
    SingleFunction(<<BasicBlock(<<Assign(0, Constant(1))>>, Unconditional(1)),
                     BasicBlock(<<Assign(1, Phi(<<0, 6>>)), Assign(2, Cmp(1, 1))>>,
                                Conditional(2, 2, 3)),
                     BasicBlock(<<Assign(3, Constant(5))>>, Unconditional(4)),
                     BasicBlock(<<Assign(4, Constant(6)), Assign(5, Cmp(4, 4))>>,
                                Conditional(5, 4, 5)),
                     BasicBlock(<<Assign(6, Phi(<<3, 4>>))>>, Unconditional(1)),
                     BasicBlock(<<>>, Return(4))>>)

\* the loop of tests::collide_different_blocks: two allocations written in
\* the first block and read and written again around a loop
CollideDifferentBlocks ==
    SingleFunction(<<BasicBlock(<<Assign(0, Allocate), Assign(1, Allocate),
                                  Assign(2, Constant(0)), Store(0, 2),
                                  Assign(3, Constant(1)), Store(1, 3)>>, Unconditional(1)),
                     BasicBlock(<<Assign(4, Load(0)), Assign(5, Load(1)),
                                  Assign(6, Add(4, 5)), Store(1, 6), Store(0, 4)>>,
                                Unconditional(1))>>)

\* a counter defined before a loop of two blocks and read in both of them
UsedAroundLoop ==
    SingleFunction(<<BasicBlock(<<Assign(0, Constant(1))>>, Unconditional(1)),
                     BasicBlock(<<Assign(1, Add(0, 0))>>, Unconditional(2)),
                     BasicBlock(<<Assign(2, Add(0, 1)), Assign(3, Cmp(2, 2))>>,
                                Conditional(3, 1, 3)),
                     BasicBlock(<<>>, Return(2))>>)

\* int main() { int a = 1; return 2; }: %0 is defined and never read
UnusedBinding ==
    SingleFunction(<<BasicBlock(<<Assign(0, Constant(1)), Assign(1, Constant(2))>>,
                                Return(1))>>)

\* the ends block b of a generated graph of n blocks may have
GenEnds(n, b) ==
    {Return(b)}
        \cup {Unconditional(t) : t \in 0 .. n - 1}
        \cup {Conditional(b, p[1], p[2]) :
                 p \in {q \in (0 .. n - 1) \X (0 .. n - 1) : q[1] < q[2]}}

\* block b of a generated graph: a binding of its own, read by a store
GenBlock(b, end) == BasicBlock(<<Assign(b, Allocate), Store(b, b)>>, end)

RECURSIVE GenBlocks(_, _)
\* every choice of the first b blocks of a generated graph of n blocks
GenBlocks(n, b) ==
    IF b = 0 THEN {<<>>}
    ELSE {Append(blocks, GenBlock(b - 1, end)) :
             blocks \in GenBlocks(n, b - 1), end \in GenEnds(n, b - 1)}

\* every control-flow graph of n such blocks
GenGraphs(n) == {SingleFunction(blocks) : blocks \in GenBlocks(n, n)}

\* the inputs of the analysis, the generated graphs having at most the given
\* number of blocks
AnalysisPrograms(most) ==
    Catalogue \cup {HappensBeforeLoop, NoBlocksInCommon, LoopPhiExit, UnusedBinding,
                    CollideDifferentBlocks, UsedAroundLoop}
        \cup UNION {GenGraphs(n) : n \in 1 .. most}

(***************************************************************************)
(* The lifetime analysis as a state machine: compute_lifetimes, the        *)
(* happens-before oracle over the addresses, compute_lifetime_collisions.  *)
(***************************************************************************)
allocatorVars ==
    <<all_lifetimes, used_through_call, phi_nodes, phi_edges, block, cursor, active, used,
      registers, callee_saved_per_function, save_upon_call, completely_spilled,
      need_move_from_r0, need_move_to_return_reg, stores_condition, step>>

AnalysisInit ==
    /\ ir \in AnalysisPrograms(MaxBlocks)
    /\ debug_assertions = FALSE
    /\ pc = "analysis"
    /\ panic = ""
    /\ lifetimes = EmptyMap
    /\ precedes = {}
    /\ with_locations = EmptyMap
    /\ collisions = EmptyMap
    /\ all_lifetimes = <<>>
    /\ used_through_call = {}
    /\ phi_nodes = EmptyMap
    /\ phi_edges = EmptyMap
    /\ block = 0
    /\ cursor = 0
    /\ active = <<>>
    /\ used = EmptyMap
    /\ registers = EmptyMap
    /\ callee_saved_per_function = <<>>
    /\ save_upon_call = {}
    /\ completely_spilled = {}
    /\ need_move_from_r0 = {}
    /\ need_move_to_return_reg = {}
    /\ stores_condition = EmptyMap
    /\ step = NoStep

\* compute_lifetimes(ir)
ComputeLifetimes ==
    /\ pc = "analysis"
    /\ pc' = "lifetimes"
    /\ lifetimes' = compute_lifetimes(ir.code)
    /\ UNCHANGED <<ir, debug_assertions, panic, precedes, with_locations, collisions>>
    /\ UNCHANGED allocatorVars

\* happens_before asked of every pair of addresses of the IR
CompareAddresses ==
    /\ pc = "lifetimes"
    /\ pc' = "compared"
    /\ precedes' = {pair \in Addresses(ir.code) \X Addresses(ir.code) :
                       happens_before(ir.code, pair[1], pair[2])}
    /\ UNCHANGED <<ir, debug_assertions, panic, lifetimes, with_locations, collisions>>
    /\ UNCHANGED allocatorVars

\* compute_lifetime_collisions(ir, lifetimes): panics when a call of
\* find_intersections meets a lifetime without ends
ComputeCollisions ==
    /\ pc = "compared"
    /\ IF CollisionsPanic(lifetimes)
       THEN /\ pc' = "panicked"
            /\ panic' = "everything comes to an end :("
            /\ UNCHANGED <<with_locations, collisions>>
       ELSE /\ pc' = "collided"
            /\ with_locations' = compute_lifetime_collisions_with_locations(ir.code, lifetimes)
            /\ collisions' =
                  compute_lifetime_collisions(
                      ir.code, compute_lifetime_collisions_with_locations(ir.code, lifetimes))
            /\ UNCHANGED panic
    /\ UNCHANGED <<ir, debug_assertions, lifetimes, precedes>>
    /\ UNCHANGED allocatorVars

AnalysisNext == ComputeLifetimes \/ CompareAddresses \/ ComputeCollisions

LifetimeSpec == AnalysisInit /\ [][AnalysisNext]_vars

(***************************************************************************)
(* Vocabulary of the properties of the lifetime analysis.                  *)
(***************************************************************************)
\* compute_lifetime_collisions has returned its map
Collided == pc = "collided"

\* block a reaches block b along at least one branch
RECURSIVE ReachableIn(_, _, _, _)
ReachableIn(code, a, b, fuel) ==
    IF fuel = 0 THEN FALSE
    ELSE \E x \in Range(BlockAt(code, a).end.targets) :
            x = b \/ ReachableIn(code, x, b, fuel - 1)

Ancestor(code, a, b) == ReachableIn(code, a, b, Len(code))

(***************************************************************************)
(* C15: the map returned by compute_lifetime_collisions is symmetric: B is *)
(* in the set of A exactly when A is in the set of B, for every            *)
(* control-flow graph, loops in which each start happens before the other  *)
(* included, and after the phi locations have been filtered out.           *)
(***************************************************************************)
C15_CollisionsSymmetric ==
    Collided =>
        \A a \in DOMAIN collisions, b \in DOMAIN collisions :
            b \in collisions[a] <=> a \in collisions[b]

(***************************************************************************)
(* C16: compute_lifetime_collisions reports A as colliding with B exactly  *)
(* when the lifetimes of A and B intersect at some location other than a   *)
(* phi assignment naming both A and B: a pair that intersects only at such *)
(* phi assignments is excluded, a pair with at least one other             *)
(* intersection location is kept.                                          *)
(***************************************************************************)
\* the (start, end) pairs at which l1 covers the start of l2
CoveredStarts(code, l1, l2) ==
    {<<l1.start, e>> : e \in {x \in l1.ends : /\ happens_before(code, l1.start, l2.start)
                                              /\ happens_before(code, l2.start, x)}}

\* the locations at which two lifetimes intersect, whichever starts first
IntersectionLocations(code, l1, l2) ==
    CoveredStarts(code, l1, l2) \cup CoveredStarts(code, l2, l1)

\* the location ends at a phi assignment whose operands include both a and b
AtCommonPhi(code, a, b, location) ==
    \E s \in AssignsOfKind(code, "Phi") :
        /\ {a, b} \subseteq Range(s.value.ops)
        /\ get_defs(code)[s.index] = location[2]

C16_CollisionsAreIntersectionsOffPhis ==
    Collided =>
        \A a \in DOMAIN lifetimes, b \in DOMAIN lifetimes :
            a # b =>
                (b \in collisions[a] <=>
                    \E location \in IntersectionLocations(ir.code, lifetimes[a], lifetimes[b]) :
                        ~AtCommonPhi(ir.code, a, b, location))

(***************************************************************************)
(* C17: for an IR with a binding that is defined but never used,           *)
(* compute_lifetimes gives that binding a lifetime with empty ends, and    *)
(* compute_lifetime_collisions over those lifetimes completes and treats   *)
(* the binding as dead right after its definition: it collides with no     *)
(* other binding.                                                          *)
(***************************************************************************)
\* the bindings defined by the IR and read nowhere
NeverUsed == AllDefined(ir.code) \ AllUsed(ir.code)

C17_UnusedBindingIsDeadAtOnce ==
    (pc \in {"lifetimes", "compared", "collided", "panicked"} /\ NeverUsed # {}) =>
        /\ \A b \in NeverUsed : lifetimes[b].ends = {}
        /\ pc # "panicked"
        /\ Collided =>
              \A b \in NeverUsed :
                  /\ collisions[b] = {}
                  /\ \A a \in DOMAIN collisions : b \notin collisions[a]

(***************************************************************************)
(* C18: two bindings defined in two blocks neither of which is an ancestor *)
(* of the other (sibling branches), each used only inside its own block,   *)
(* have no intersection in either argument order of find_intersections and *)
(* are not in each other's collision set; and a binding that ends in the   *)
(* branching block does not intersect a binding defined in either branch.  *)
(***************************************************************************)
\* neither block is reached from the other
Siblings(code, x, y) == x # y /\ ~Ancestor(code, x, y) /\ ~Ancestor(code, y, x)

\* b is read, and only in the block that defines it
UsedOnlyInOwnBlock(b) ==
    /\ b \in AllUsed(ir.code)
    /\ DOMAIN all_block_ends(ir.code)[b] = {DefBlock(b)}

\* a and b are defined in sibling blocks and stay there
SiblingBindings(a, b) ==
    /\ Siblings(ir.code, DefBlock(a), DefBlock(b))
    /\ UsedOnlyInOwnBlock(a)
    /\ UsedOnlyInOwnBlock(b)

\* x ends in a block that branches to two siblings, y is defined in one of them
EndsAtBranchOf(x, y) ==
    \E blk \in BlockIds(ir.code) :
        LET end == BlockAt(ir.code, blk).end
        IN  /\ end.kind = "Conditional"
            /\ Siblings(ir.code, end.targets[1], end.targets[2])
            /\ lifetimes[x].ends # {}
            /\ \A e \in lifetimes[x].ends : e[1] = blk
            /\ DefBlock(y) \in Range(end.targets)
            /\ lifetimes[y].ends # {}

NoIntersection(a, b) ==
    /\ find_intersections(lifetimes[a], lifetimes[b], ir.code) = {}
    /\ find_intersections(lifetimes[b], lifetimes[a], ir.code) = {}

C18_SiblingBranchesDoNotIntersect ==
    pc \in {"lifetimes", "compared", "collided"} =>
        \A a \in DOMAIN lifetimes, b \in DOMAIN lifetimes :
            /\ SiblingBindings(a, b) =>
                  /\ NoIntersection(a, b)
                  /\ Collided => b \notin collisions[a] /\ a \notin collisions[b]
            /\ EndsAtBranchOf(a, b) => NoIntersection(a, b)

\* the collision pass has returned for a graph with two sibling bindings and
\* a binding that ends in the block branching to them
C18_Witness ==
    /\ Collided
    /\ \E a \in DOMAIN lifetimes, b \in DOMAIN lifetimes, x \in DOMAIN lifetimes :
          SiblingBindings(a, b) /\ EndsAtBranchOf(x, a) /\ EndsAtBranchOf(x, b)

(***************************************************************************)
(* C19: for all block addresses A and B of an IR, A.happens_before(B) is   *)
(* true exactly when A and B are in the same block and A's statement index *)
(* is smaller, or A's block is an ancestor of B's block by at least one    *)
(* branch.  Hence inside a block that lies on no cycle the relation is     *)
(* asymmetric, while for blocks on a common cycle, or a block with a       *)
(* self-loop, it holds in both directions.                                 *)
(***************************************************************************)
\* the oracle has answered for every pair of addresses
Compared == pc \in {"compared", "collided", "panicked"}

C19_HappensBeforeIsOrderOrAncestry ==
    Compared =>
        \A A \in Addresses(ir.code), B \in Addresses(ir.code) :
            /\ <<A, B>> \in precedes <=>
                  \/ A[1] = B[1] /\ A[2] < B[2]
                  \/ Ancestor(ir.code, A[1], B[1])
            /\ (A[1] = B[1] /\ ~Ancestor(ir.code, A[1], A[1])) =>
                  ~(<<A, B>> \in precedes /\ <<B, A>> \in precedes)
            /\ (Ancestor(ir.code, A[1], B[1]) /\ Ancestor(ir.code, B[1], A[1])) =>
                  (<<A, B>> \in precedes /\ <<B, A>> \in precedes)

\* the oracle has answered for a graph with a block on a cycle, where a later
\* statement precedes an earlier one, and a block on no cycle
C19_Witness ==
    /\ Compared
    /\ \E A \in Addresses(ir.code), B \in Addresses(ir.code) :
          A[1] = B[1] /\ A[2] < B[2] /\ <<B, A>> \in precedes
    /\ \E A \in Addresses(ir.code), B \in Addresses(ir.code) :
          A[1] = B[1] /\ A[2] < B[2] /\ <<A, B>> \in precedes /\ <<B, A>> \notin precedes
    /\ \E A \in Addresses(ir.code), B \in Addresses(ir.code) :
          A[1] # B[1] /\ <<A, B>> \in precedes /\ <<B, A>> \notin precedes

(***************************************************************************)
(* C21: when linear_alloc_block processes a phi destination whose operands *)
(* are not all allocated, or are allocated to two or more different        *)
(* locations (and likewise a phi operand whose allocated siblings          *)
(* disagree), the allocation stops in a failure state with a diagnostic    *)
(* and records no register for the binding; it never silently takes one of *)
(* the disagreeing registers.                                              *)
(***************************************************************************)
\* the locations of the allocated members of a set of bindings, b left out
LocationsOf(bindings, b) == {registers[e] : e \in (bindings \ {b}) \cap DOMAIN registers}

\* the last iteration consulted a phi hint whose bindings were not all
\* allocated (destination) or were allocated to several locations
InconsistentPhiHint ==
    LET d == step.binding
    IN  \/ /\ step.kind = "phi_node"
           /\ \/ ~((from_phi_node(ir.code)[d] \ {d}) \subseteq DOMAIN registers)
              \/ Cardinality(LocationsOf(from_phi_node(ir.code)[d], d)) >= 2
        \/ /\ step.kind = "phi_edge"
           /\ Cardinality(LocationsOf(is_phi_node_with(ir.code)[d], d)) >= 2

C21_PhiDisagreementFails ==
    InconsistentPhiHint =>
        /\ pc = "panicked"
        /\ panic # ""
        /\ step.binding \notin DOMAIN registers

(***************************************************************************)
(* One iteration of the loop of linear_alloc_block, seen as a step.        *)
(***************************************************************************)
\* a step of the loop over ordered_by_start that did not panic
IterationStep == pc = "in_block" /\ cursor' = cursor + 1 /\ pc' = "in_block"

\* the lifetimes of the block being allocated
CurrentLifetimes == all_lifetimes[block + 1]

\* the binding the step at the cursor processes
CurrentBinding == CurrentLifetimes.ordered_by_start[cursor]

\* the bindings the step removed from active
Dropped == Range(active) \ Range(active')

\* the steps that count their binding in used
CountsItsBinding(kind) == kind \notin {"flag", "spill", "none"}

\* number of entries of the map for the register
CountOf(usedMap, r) == GetOr(usedMap, r, 0)

\* C22 (as claimed): the step for b drops from active exactly the bindings
\* whose end is strictly less than start(b); a binding whose end equals
\* start(b) stays active and keeps its register counted in used.
C22_ExpiresStrictlyEarlier ==
    [][IterationStep =>
          LET ends == CurrentLifetimes.binding_ends
              start == CurrentLifetimes.binding_starts[CurrentBinding]
          IN  /\ Dropped = {a \in Range(active) : ends[a] < start}
              /\ \A a \in Range(active) :
                    ends[a] = start => /\ a \in Range(active')
                                       /\ registers[a] \in DOMAIN used']_vars

\* C22 (amended): the step for b drops from active exactly the bindings whose
\* end is less than or equal to start(b), and used loses one count for each
\* dropped binding's register (the key goes when the count reaches zero); a
\* binding whose end is greater than start(b) stays active.
C22_ExpiresUpToStart ==
    [][IterationStep =>
          LET ends == CurrentLifetimes.binding_ends
              start == CurrentLifetimes.binding_starts[CurrentBinding]
          IN  /\ Dropped = {a \in Range(active) : ends[a] <= start}
              /\ \A r \in DOMAIN used \cup DOMAIN used' :
                    /\ CountOf(used', r) =
                          CountOf(used, r)
                            - Cardinality({a \in Dropped : registers[a] = r})
                            + (IF CountsItsBinding(step'.kind) /\ step'.reg = r
                               THEN 1 ELSE 0)
                    /\ r \in DOMAIN used' <=> CountOf(used', r) > 0]_vars

\* a binding that ended exactly where the processed binding starts has left
\* active and the free search handed its register to the processed binding
C22_Witness ==
    /\ pc = "in_block"
    /\ step.kind = "free"
    /\ \E a \in DOMAIN registers \ {step.binding} :
          /\ a \in DOMAIN CurrentLifetimes.binding_ends
          /\ CurrentLifetimes.binding_ends[a]
                = CurrentLifetimes.binding_starts[step.binding]
          /\ a \notin Range(active)
          /\ registers[a] = step.reg

\* the active list once the bindings ending at or before start are expired
Unexpired(bindings, ends, start) ==
    LET Alive(a) == ends[a] > start
    IN  SelectSeq(bindings, Alive)

\* C23: when the step for b finds no free register and the active binding
\* with the latest end does not end after b, b is mapped to the stack and
\* added to completely_spilled and nothing else changes: beyond the expiry
\* that opens the step, active and used are untouched, the callee-saved lists,
\* save_upon_call and every other binding's register are unchanged, and the
\* allocation goes on without error.
C23_SelfSpillTouchesOnlyTheBinding ==
    [][(pc = "in_block" /\ cursor' = cursor + 1 /\ step'.kind = "spill") =>
          LET b == CurrentBinding
              ends == CurrentLifetimes.binding_ends
              start == CurrentLifetimes.binding_starts[b]
              rest == Unexpired(active, ends, start)
              gone == Range(active) \ Range(rest)
          IN  /\ step'.binding = b
              /\ rest # <<>>
              /\ ends[rest[Len(rest)]] <= ends[b]
              /\ pc' = "in_block"
              /\ panic' = ""
              /\ registers' = Insert(registers, b, StackPointer)
              /\ b \notin DOMAIN registers
              /\ completely_spilled' = completely_spilled \cup {b}
              /\ active' = rest
              /\ \A r \in DOMAIN used \cup DOMAIN used' :
                    /\ CountOf(used', r)
                          = CountOf(used, r) - Cardinality({a \in gone : registers[a] = r})
                    /\ r \in DOMAIN used' <=> CountOf(used', r) > 0
              /\ callee_saved_per_function' = callee_saved_per_function
              /\ save_upon_call' = save_upon_call]_vars

\* a binding has just spilled itself while other bindings hold the registers
C23_Witness ==
    /\ pc = "in_block"
    /\ step.kind = "spill"
    /\ active # <<>>
    /\ step.binding \in completely_spilled
    /\ step.binding \notin Range(active)
    /\ registers[step.binding] = StackPointer

(***************************************************************************)
(* C24: for two lifetimes with non-empty ends, L1.find_intersections(L2)   *)
(* is non-empty exactly when L1 starts before L2 and L2 starts before some *)
(* end of L1, or the same with the roles exchanged. In straight-line code  *)
(* a binding whose last use is at or before the definition of another does *)
(* not intersect it; two bindings both used around a cycle intersect.      *)
(***************************************************************************)
\* the lifetimes have been computed
LifetimesComputed == pc \in {"lifetimes", "compared", "collided"} \/ (pc = "panicked" /\ lifetimes # EmptyMap)

C24_IntersectsIffOneCoversTheOther ==
    LifetimesComputed =>
        \A a \in DOMAIN lifetimes, b \in DOMAIN lifetimes :
            (a # b /\ lifetimes[a].ends # {} /\ lifetimes[b].ends # {}) =>
                (find_intersections(lifetimes[a], lifetimes[b], ir.code) # {}
                    <=> IntersectionLocations(ir.code, lifetimes[a], lifetimes[b]) # {})

\* both cases of the claim in one function: two allocations used around a
\* cycle intersect, and a binding last used before another is defined in the
\* same block does not intersect it
C24_Witness ==
    /\ LifetimesComputed
    /\ \E a \in DOMAIN lifetimes, b \in DOMAIN lifetimes :
          /\ a # b
          /\ {a, b} \subseteq {s.index : s \in AssignsOfKind(ir.code, "Allocate")}
          /\ \E e \in lifetimes[a].ends : Ancestor(ir.code, e[1], e[1])
          /\ \E e \in lifetimes[b].ends : Ancestor(ir.code, e[1], e[1])
          /\ find_intersections(lifetimes[a], lifetimes[b], ir.code) # {}
    /\ \E c \in DOMAIN lifetimes, d \in DOMAIN lifetimes :
          /\ lifetimes[c].ends # {}
          /\ lifetimes[d].ends # {}
          /\ lifetimes[c].start[1] = lifetimes[d].start[1]
          /\ \A e \in lifetimes[c].ends :
                /\ e[1] = lifetimes[d].start[1]
                /\ e[2] <= lifetimes[d].start[2]
          /\ find_intersections(lifetimes[c], lifetimes[d], ir.code) = {}
          /\ find_intersections(lifetimes[d], lifetimes[c], ir.code) = {}

(***************************************************************************)
(* C25: every binding that is defined and used at least once (as a         *)
(* statement operand, in a Return end or as a Conditional flag) gets from  *)
(* compute_lifetimes a lifetime with a non-empty set of ends, for every    *)
(* control-flow graph, one where the binding is used in two or more blocks *)
(* on a common cycle included.                                             *)
(***************************************************************************)
C25_UsedBindingHasAnEnd ==
    LifetimesComputed =>
        \A b \in AllDefined(ir.code) \cap AllUsed(ir.code) : lifetimes[b].ends # {}

(***************************************************************************)
(* C26: every end of a lifetime produced by compute_lifetimes is a maximal *)
(* use: it is the last use of the binding inside its block (a use in the   *)
(* block end counts as index = number of statements), there is at most one *)
(* end per block, and no other use of the same binding lies in a block     *)
(* that is a strict successor of the end's block.                          *)
(***************************************************************************)
\* the blocks in which the binding is read
UseBlocks(code, b) == {x \in BlockIds(code) : b \in UsedIn(BlockAt(code, x))}

C26_EndsAreMaximalUses ==
    LifetimesComputed =>
        \A b \in DOMAIN lifetimes :
            \A e \in lifetimes[b].ends :
                /\ e[1] \in UseBlocks(ir.code, b)
                /\ e[2] \in UseIndices(BlockAt(ir.code, e[1]), b)
                /\ \A i \in UseIndices(BlockAt(ir.code, e[1]), b) : i <= e[2]
                /\ \A o \in lifetimes[b].ends : o[1] = e[1] => o = e
                /\ \A x \in UseBlocks(ir.code, b) \ {e[1]} : ~Ancestor(ir.code, e[1], x)

\* a binding read in two blocks, one after the other: its only end is the
\* last read in the later block
C26_Witness ==
    /\ LifetimesComputed
    /\ \E b \in DOMAIN lifetimes :
          /\ Cardinality(UseBlocks(ir.code, b)) >= 2
          /\ Cardinality(lifetimes[b].ends) = 1
          /\ \E e \in lifetimes[b].ends :
                \E x \in UseBlocks(ir.code, b) : Ancestor(ir.code, x, e[1]) /\ x # e[1]

(***************************************************************************)
(* C27: after make_allocator_hints, for every phi assignment i = phi(S):   *)
(* from_phi_node[i] is the operand set S, and for every operand o of S,    *)
(* is_phi_node_with[o] holds every element of S other than o and never o   *)
(* itself (the sets of an operand feeding several phis are united); hence  *)
(* a is in is_phi_node_with[b] exactly when b is in is_phi_node_with[a].   *)
(***************************************************************************)
\* the hints as make_allocator_hints returned them, nothing consumed yet
HintsMade == pc = "start"

C27_PhiHintsMirrorThePhis ==
    HintsMade =>
        /\ \A s \in AssignsOfKind(ir.code, "Phi") :
              LET S == Range(s.value.ops)
              IN  /\ s.index \in DOMAIN phi_nodes
                  /\ phi_nodes[s.index] = S
                  /\ \A o \in S : /\ o \in DOMAIN phi_edges
                                  /\ (S \ {o}) \subseteq phi_edges[o]
        /\ \A o \in DOMAIN phi_edges : o \notin phi_edges[o]
        /\ \A a \in DOMAIN phi_edges :
              \A b \in phi_edges[a] : b \in DOMAIN phi_edges /\ a \in phi_edges[b]

\* an operand that feeds two phis carries the union of its siblings
C27_Witness ==
    /\ HintsMade
    /\ \E s \in AssignsOfKind(ir.code, "Phi"), t \in AssignsOfKind(ir.code, "Phi") :
          /\ s.index # t.index
          /\ \E o \in Range(s.value.ops) \cap Range(t.value.ops) :
                /\ phi_edges[o] = (Range(s.value.ops) \cup Range(t.value.ops)) \ {o}
                /\ Cardinality(phi_edges[o]) >= 2

(***************************************************************************)
(* C28: after every step of linear_alloc_block, used[R] is the number of   *)
(* active bindings whose register is R, and R is not a key when that       *)
(* number is zero. In particular, when a phi hint makes a binding adopt a  *)
(* register that an active binding already holds, the count of that        *)
(* register becomes 2 and the allocation continues.                        *)
(***************************************************************************)
\* the active bindings recorded in the register
HoldersOf(r) == {i \in 1 .. Len(active) : registers[active[i]] = r}

\* used counts the active holders of every register
UsedCountsActive ==
    /\ \A r \in DOMAIN used : used[r] = Cardinality(HoldersOf(r)) /\ used[r] > 0
    /\ \A i \in 1 .. Len(active) : registers[active[i]] \in DOMAIN used

\* the step adopted, from a phi hint, a register that was still counted
PhiAdoptsHeldRegister ==
    /\ step.kind \in {"phi_edge", "phi_node"}
    /\ step.reg \in DOMAIN used
    /\ \E i \in 1 .. Len(active) :
          active[i] # step.binding /\ registers[active[i]] = step.reg

C28_UsedCountsActiveBindings ==
    /\ pc = "in_block" => UsedCountsActive
    /\ PhiAdoptsHeldRegister =>
          /\ pc = "in_block"
          /\ used[step.reg] = 2
          /\ step.binding \in Range(active)

(***************************************************************************)
(* C29: after every step of linear_alloc_block the active list is sorted   *)
(* in ascending order of the bindings' end index, so that active.last()    *)
(* is an active binding with the maximal end, and the expired prefix is    *)
(* exactly the bindings that are no longer live: what stays ends after the *)
(* start of the binding just processed, and every binding processed        *)
(* earlier that was given a register and ends later is still there.        *)
(***************************************************************************)
\* the binding the last step of the running block processed
LastProcessed == CurrentLifetimes.ordered_by_start[cursor - 1]

\* the bindings of the running block processed before the last one
ProcessedEarlier == {CurrentLifetimes.ordered_by_start[i] : i \in 1 .. cursor - 2}

C29_ActiveSortedByEnd ==
    (pc = "in_block" /\ cursor > 1) =>
        LET ends == CurrentLifetimes.binding_ends
            start == CurrentLifetimes.binding_starts[LastProcessed]
        IN  /\ \A i \in 1 .. Len(active) - 1 : ends[active[i]] <= ends[active[i + 1]]
            /\ active # <<>> =>
                  \A a \in Range(active) : ends[a] <= ends[active[Len(active)]]
            /\ \A a \in Range(active) \ {LastProcessed} : ends[a] > start
            /\ \A a \in ProcessedEarlier :
                  (/\ a \in DOMAIN registers
                   /\ a \notin completely_spilled
                   /\ ends[a] > start) => a \in Range(active)

\* the step inserted its binding between two active bindings, before one
\* that ends later
C29_Witness ==
    /\ pc = "in_block"
    /\ cursor > 1
    /\ \E i \in 2 .. Len(active) - 1 :
          /\ active[i] = LastProcessed
          /\ CurrentLifetimes.binding_ends[active[i - 1]]
                <= CurrentLifetimes.binding_ends[active[i]]
          /\ CurrentLifetimes.binding_ends[active[i]]
                < CurrentLifetimes.binding_ends[active[i + 1]]

(***************************************************************************)
(* C30: in the CodegenHints returned by alloc_registers a binding is in    *)
(* completely_spilled exactly when registers maps it to the stack,         *)
(* whichever step produced the mapping (self-spill, eviction, or adoption  *)
(* through a phi hint of the location of an already-allocated sibling);    *)
(* and no binding mapped to the stack is counted in used or kept in        *)
(* active.                                                                 *)
(***************************************************************************)
C30_SpilledIffOnStack ==
    /\ Done =>
          /\ completely_spilled \subseteq DOMAIN registers
          /\ \A b \in DOMAIN registers :
                b \in completely_spilled <=> registers[b] = StackPointer
    /\ pc = "in_block" =>
          /\ StackPointer \notin DOMAIN used
          /\ \A a \in Range(active) : registers[a] # StackPointer

====
